---------------------------- MODULE Spec2Model ----------------------------
(***************************************************************************)
(* Model of the placeholder / conditional-field engine of                  *)
(* loe-document-generation-poc:                                            *)
(*   src/document-upload-parse.py   (partner tab + user tab, one script)   *)
(*   src/dynamic-form-generation.py (the stand-alone form script)          *)
(*                                                                         *)
(* Python values are modelled by tokens (PyNone, EmptyStr, ...) with       *)
(* Python's == and truth value computed by PyEq and PyBool.  Placeholder   *)
(* names and document texts are sequences of one-character strings, so     *)
(* that str.strip and re.findall are computed, not assumed.                *)
(***************************************************************************)
EXTENDS Integers, Sequences, FiniteSets, TLC

(***************************************************************************)
(* Python values                                                           *)
(***************************************************************************)
PyNone == "None"
EmptyStr == "''"
EmptyList == "[]"
PyFalse == "False"
PyTrue == "True"
Int0 == "0"
Float0 == "0.0"
Float1 == "1.0"
Str0 == "'0'"
StrX == "'x'"
DateStr == "'2026-11-02'"

\* bool is a subclass of int: False == 0 == 0.0 and True == 1 == 1.0
IsNumber(v) == v \in {PyFalse, PyTrue, Int0, Float0, Float1}

NumberOf(v) == IF v \in {PyTrue, Float1} THEN 1 ELSE 0

\* Python's ==
PyEq(x, y) == IF IsNumber(x) /\ IsNumber(y) THEN NumberOf(x) = NumberOf(y) ELSE x = y

\* Python's "x in lst" for a list lst
PyIn(x, lst) == \E i \in DOMAIN lst : PyEq(lst[i], x)

\* Python's truth value of a form value, as used by "not value"
PyBool(v) == ~(v \in {PyNone, EmptyStr, EmptyList} \/ (IsNumber(v) /\ NumberOf(v) = 0))

(***************************************************************************)
(* Names, str.strip("${}") and dict helpers                                *)
(***************************************************************************)
StripChars == {"$", "{", "}"}

RECURSIVE LStrip(_)
LStrip(s) == IF s # <<>> /\ Head(s) \in StripChars THEN LStrip(Tail(s)) ELSE s

RECURSIVE RStrip(_)
RStrip(s) == IF s # <<>> /\ s[Len(s)] \in StripChars
             THEN RStrip(SubSeq(s, 1, Len(s) - 1)) ELSE s

\* name.strip("${}")
Strip(s) == RStrip(LStrip(s))

\* d.get(k, None) for a dict modelled as a function
DictGet(d, k) == IF k \in DOMAIN d THEN d[k] ELSE PyNone

Range(s) == {s[i] : i \in DOMAIN s}

\* the sequences without repetition over S (every order of every subset)
DistinctSeqs(S) ==
    UNION {{s \in [1..n -> S] : \A i, j \in 1..n : i # j => s[i] # s[j]} :
           n \in 0..Cardinality(S)}

\* the default configuration of an extracted or suggested placeholder
DefaultSettings ==
    [type |-> "Text", required |-> FALSE, is_conditional |-> FALSE,
     dependent_on |-> [list |-> TRUE, v |-> <<>>]]

(***************************************************************************)
(* The dependency evaluator and the validator of document-upload-parse.py  *)
(***************************************************************************)
\* "not dependent_on": the empty list and the empty string are falsy
DepEmpty(dependent_on) == dependent_on.v = <<>>

\* dependent_on[0] if isinstance(dependent_on, list) else dependent_on
ParentField(dependent_on) ==
    IF dependent_on.list THEN dependent_on.v[1] ELSE dependent_on.v

NotFilledList == <<PyNone, EmptyStr, EmptyList, PyFalse>>

\* the parent test applied whatever the is_conditional flag says
should_show_field_ignoring_flag(field_name, field_info, form_data) ==
    LET dependent_on == field_info.dependent_on IN
    IF DepEmpty(dependent_on)
    THEN TRUE
    ELSE ~PyIn(DictGet(form_data, Strip(ParentField(dependent_on))), NotFilledList)

should_show_field(field_name, field_info, form_data) ==
    LET dependent_on == field_info.dependent_on IN
    IF ~field_info.is_conditional \/ DepEmpty(dependent_on)
    THEN TRUE
    ELSE LET parent_field == ParentField(dependent_on)
             parent_value == DictGet(form_data, Strip(parent_field))
         IN  ~PyIn(parent_value, NotFilledList)

is_field_required_unconditional(field_name, field_info, form_data) ==
    field_info.required

is_field_required(field_name, field_info, form_data) ==
    IF field_info.required
    THEN IF field_info.is_conditional /\ ~DepEmpty(field_info.dependent_on)
         THEN LET parent_field == ParentField(field_info.dependent_on)
                  parent_value == DictGet(form_data, Strip(parent_field))
              IN  ~PyIn(parent_value, NotFilledList)
         ELSE TRUE
    ELSE FALSE

\* validate_form: the list of missing fields (registry order, stripped names);
\* the function returns True iff the list is empty
MissingFields(form_data, placeholders) ==
    LET Test(name) ==
            /\ is_field_required(name, placeholders.val[name], form_data)
            /\ ~PyBool(DictGet(form_data, Strip(name)))
        sel == SelectSeq(placeholders.keys, Test)
    IN  [i \in DOMAIN sel |-> Strip(sel[i])]

validate_form(form_data, placeholders) == MissingFields(form_data, placeholders) = <<>>

(***************************************************************************)
(* extract_placeholders: re.findall(r"\$\{(.*?)\}", text), list(set(...))  *)
(***************************************************************************)
Newline == "\n"

RECURSIVE Join(_)
\* "\n".join([p["text"] for p in paragraphs])
Join(paragraphs) ==
    IF paragraphs = <<>> THEN <<>>
    ELSE IF Len(paragraphs) = 1 THEN paragraphs[1]
    ELSE paragraphs[1] \o <<Newline>> \o Join(Tail(paragraphs))

\* the position of the "}" that ends a match starting with "${" at i, or 0:
\* ".*?" is lazy and "." does not match a newline
MatchEnd(text, i) ==
    LET closes == {j \in (i + 2)..Len(text) : text[j] = "}"} IN
    IF closes = {} THEN 0
    ELSE LET j == CHOOSE k \in closes : \A m \in closes : k <= m IN
         IF \E m \in (i + 2)..(j - 1) : text[m] = Newline THEN 0 ELSE j

RECURSIVE FindAllFrom(_, _)
\* the groups of the non-overlapping matches, scanning from position i
FindAllFrom(text, i) ==
    IF i + 2 > Len(text) THEN <<>>
    ELSE IF text[i] = "$" /\ text[i + 1] = "{" /\ MatchEnd(text, i) # 0
         THEN <<SubSeq(text, i + 2, MatchEnd(text, i) - 1)>>
                  \o FindAllFrom(text, MatchEnd(text, i) + 1)
         ELSE FindAllFrom(text, i + 1)

FindAll(text) == FindAllFrom(text, 1)

\* every order of the elements of the set S
SetOrders(S) == {s \in DistinctSeqs(S) : Len(s) = Cardinality(S)}

\* the orders list(set(found)) can have: a set of str iterates in hash order,
\* and str hashes are randomised per process
ListOfSet(found) == SetOrders(Range(found))

\* the dict built from one such order: every name with the default settings
ExtractedDict(order) == [keys |-> order, val |-> [n \in Range(order) |-> DefaultSettings]]

\* the possible results of extract_placeholders(paragraphs)
extract_placeholders(paragraphs) ==
    {ExtractedDict(order) : order \in ListOfSet(FindAll(Join(paragraphs)))}

(***************************************************************************)
(* The Streamlit script document-upload-parse.py.  Every interaction with  *)
(* a widget re-runs the whole script against st.session_state: one action  *)
(* of Spec is one interaction followed by one complete run (partner tab,   *)
(* then user tab).  A button reads True only in the run its click starts;  *)
(* a widget that a run does not render loses its state and is created      *)
(* with its default the next time it is rendered.                          *)
(***************************************************************************)
VARIABLES uploaded_file, processed_paragraphs, placeholders, ai_suggestions,
          accepted_ai_suggestions, template_json, form_data,
          w_accept, w_input, docx_file, outcome, n_ops

appVars == <<uploaded_file, processed_paragraphs, placeholders, ai_suggestions,
             accepted_ai_suggestions, template_json, form_data,
             w_accept, w_input, docx_file, outcome, n_ops>>

\* the variables of SpecEval (the evaluator applied) and of SpecExtract
VARIABLES ev_placeholders, ev_form_data, ev_ops, ev_shown, ev_required,
          ev_missing, ev_ok

evVars == <<ev_placeholders, ev_form_data, ev_ops, ev_shown, ev_required,
            ev_missing, ev_ok>>

VARIABLES ex_paragraphs, ex_placeholders, ex_done

exVars == <<ex_paragraphs, ex_placeholders, ex_done>>

\* the variables of SpecForm (dynamic-form-generation.py)
VARIABLES fm_template, fm_docx, fm_session, fm_placeholders, fm_init, fm_local,
          fm_w_input, fm_outcome, fm_ops

fmVars == <<fm_template, fm_docx, fm_session, fm_placeholders, fm_init, fm_local,
            fm_w_input, fm_outcome, fm_ops>>

vars == <<appVars, evVars, exVars, fmVars>>

nA == <<"a">>
nB == <<"b">>
nC == <<"c">>
pA == <<"$", "{", "a", "}">>
pB == <<"$", "{", "b", "}">>

EmptyDict == [keys |-> <<>>, val |-> <<>>]

NoFile == [present |-> FALSE, doc |-> <<>>]

\* template_json = None
NoTemplate == [saved |-> FALSE, keys |-> <<>>, ref |-> {}, snap |-> <<>>]

NoOutcome ==
    [validation |-> "none", missing |-> <<>>, confirm |-> FALSE,
     generation |-> "none", llm_failed |-> FALSE, cleaned_by |-> "none",
     final |-> <<>>, clicked |-> "none"]

\* st.session_state as one record, threaded through the stages of a run
Session ==
    [uploaded_file |-> uploaded_file, processed_paragraphs |-> processed_paragraphs,
     placeholders |-> placeholders, ai_suggestions |-> ai_suggestions,
     accepted_ai_suggestions |-> accepted_ai_suggestions,
     template_json |-> template_json, form_data |-> form_data,
     w_accept |-> w_accept, w_input |-> w_input, docx_file |-> docx_file,
     outcome |-> outcome]

NoEvent == [kind |-> "none", target |-> <<>>, value |-> <<>>]

NonBlank(p) == \E i \in DOMAIN p : p[i] \notin {" ", Newline}

\* the paragraphs of the uploaded document whose text is not blank
extract_paragraphs_from_docx(doc) == SelectSeq(doc, NonBlank)

\* lines 260-265: the first run with an uploaded file and no paragraphs yet
\* seeds the registry (ph: one result of extract_placeholders) and the
\* suggestions (sugg: the answer of suggest_placeholders_with_ai)
UploadStage(S, ph, sugg) ==
    IF S.uploaded_file.present /\ S.processed_paragraphs = <<>>
    THEN [S EXCEPT !.processed_paragraphs = extract_paragraphs_from_docx(S.uploaded_file.doc),
                   !.placeholders = ph,
                   !.ai_suggestions = IF @ = <<>> THEN sugg ELSE @]
    ELSE S

ExtractChoices(S) ==
    IF S.uploaded_file.present /\ S.processed_paragraphs = <<>>
    THEN extract_placeholders(extract_paragraphs_from_docx(S.uploaded_file.doc))
    ELSE {S.placeholders}

\* lines 279-285 for one placeholder: the settings are overwritten by the
\* values of its widgets; the multiselect is rendered only when conditional
\* and starts from the stored dependent_on
WidgetSettings(old, kind, value) ==
    LET type == IF kind = "type" THEN value ELSE old.type
        req == IF kind = "required" THEN ~old.required ELSE old.required
        cond == IF kind = "conditional" THEN ~old.is_conditional ELSE old.is_conditional
        dep == IF cond /\ kind = "depends"
               THEN [list |-> TRUE, v |-> value] ELSE old.dependent_on
    IN  [type |-> type, required |-> req, is_conditional |-> cond, dependent_on |-> dep]

\* lines 277-285: the loop over the extracted placeholders
ConfigStage(S, ev) ==
    [S EXCEPT !.placeholders.val =
        [n \in Range(S.placeholders.keys) |->
            WidgetSettings(S.placeholders.val[n],
                           IF ev.target = n THEN ev.kind ELSE "none", ev.value)]]

\* lines 291-300 for one accepted suggestion: a fresh settings dict from the
\* widgets, which exist with their state only if the suggestion was accepted
\* in the previous run too; dependent_on starts from [] in every run
AcceptedSettings(S, s, kind, value) ==
    LET was == s \in S.w_accept /\ s \in Range(S.accepted_ai_suggestions.keys)
        old == IF was THEN S.accepted_ai_suggestions.val[s] ELSE DefaultSettings
        type == IF kind = "ai_type" THEN value ELSE old.type
        req == IF kind = "ai_required" THEN ~old.required ELSE old.required
        cond == IF kind = "ai_conditional" THEN ~old.is_conditional ELSE old.is_conditional
        dep == IF cond /\ old.is_conditional
               THEN (IF kind = "ai_depends" THEN value ELSE old.dependent_on.v)
               ELSE <<>>
    IN  [type |-> type, required |-> req, is_conditional |-> cond,
         dependent_on |-> [list |-> TRUE, v |-> dep]]

\* lines 288-301: the loop over the suggestions
SuggestionStage(S, ev) ==
    LET ticked == IF ev.kind = "accept"
                  THEN (IF ev.target \in S.w_accept
                        THEN S.w_accept \ {ev.target} ELSE S.w_accept \cup {ev.target})
                  ELSE S.w_accept \cap Range(S.ai_suggestions)
        old == S.accepted_ai_suggestions
        IsNew(s) == s \in ticked /\ s \notin Range(old.keys)
        keys == old.keys \o SelectSeq(S.ai_suggestions, IsNew)
    IN  [S EXCEPT !.w_accept = ticked,
                  !.accepted_ai_suggestions =
                      [keys |-> keys,
                       val |-> [s \in Range(keys) |->
                                  IF s \in ticked
                                  THEN AcceptedSettings(S, s,
                                           IF ev.target = s THEN ev.kind ELSE "none",
                                           ev.value)
                                  ELSE old.val[s]]]]

\* "${name}"
Delimited(name) == <<"$", "{">> \o name \o <<"}">>

\* insert_placeholders_in_markdown: the answer of the model (the document
\* with a paragraph added for every placeholder it does not hold yet), or
\* the paragraphs unchanged when the call fails
insert_placeholders_in_markdown(paragraphs, keys, ok) ==
    LET Absent(n) == n \notin Range(FindAll(Join(paragraphs)))
        add == SelectSeq(keys, Absent)
    IN  IF ok THEN paragraphs \o [i \in DOMAIN add |-> Delimited(add[i])]
        ELSE paragraphs

\* {**placeholders, **accepted_ai_suggestions}: the keys of the first dict,
\* then the new keys of the second; a key of both takes the second's value.
\* The values are the settings objects themselves, not copies: an entry taken
\* from st.session_state.placeholders (ref) is the object that lines 279-285
\* keep writing to, an entry taken from the accepted suggestions (snap) is an
\* object that no later run writes to.
MergedPlaceholders(S) ==
    LET ph == S.placeholders
        acc == S.accepted_ai_suggestions
        IsNew(n) == n \notin Range(ph.keys)
    IN  [saved |-> TRUE,
         keys |-> ph.keys \o SelectSeq(acc.keys, IsNew),
         ref |-> Range(ph.keys) \ Range(acc.keys),
         snap |-> acc.val]

\* lines 305-325: the Save Template button
SaveStage(S, ev, insert_ok) ==
    IF ev.kind = "save"
    THEN LET tj == MergedPlaceholders(S)
             updated == IF S.accepted_ai_suggestions.keys # <<>>
                        THEN insert_placeholders_in_markdown(
                                 S.processed_paragraphs, tj.keys, insert_ok)
                        ELSE S.processed_paragraphs
         IN  [S EXCEPT !.template_json = tj,
                       !.processed_paragraphs = updated,
                       !.docx_file = [present |-> TRUE, paragraphs |-> updated]]
    ELSE S

\* template_data.get("placeholders", {}) as the user tab reads it
TemplatePlaceholders(S) ==
    LET tj == S.template_json IN
    [keys |-> tj.keys,
     val |-> [n \in Range(tj.keys) |->
                IF n \in tj.ref THEN S.placeholders.val[n] ELSE tj.snap[n]]]

StrippedKeys(tp) == {Strip(tp.keys[i]) : i \in DOMAIN tp.keys}

\* lines 339-341: form_data is re-initialised when its key set differs
FormInitStage(S) ==
    LET tp == TemplatePlaceholders(S) IN
    IF DOMAIN S.form_data # StrippedKeys(tp)
    THEN [S EXCEPT !.form_data = [k \in StrippedKeys(tp) |-> PyNone]]
    ELSE S

WidgetKind(type) == IF type \in {"Number", "Date"} THEN type ELSE "Text"

\* the value of a newly created input widget
DefaultValue(kind) ==
    IF kind = "Number" THEN Float0 ELSE IF kind = "Date" THEN DateStr ELSE EmptyStr

\* the values a user can give to an input widget of a kind
InputValues(kind) ==
    IF kind = "Number" THEN {Float0, Float1}
    ELSE IF kind = "Date" THEN {DateStr} ELSE {EmptyStr, StrX, Str0}

\* lines 349-357: the value the widget with key input_<field_name> returns
WidgetValue(kind, field_name, old_w, ev) ==
    IF ev.kind = "input" /\ ev.target = field_name /\ ev.value \in InputValues(kind)
    THEN ev.value
    ELSE IF field_name \in DOMAIN old_w /\ old_w[field_name].kind = kind
         THEN old_w[field_name].value
         ELSE DefaultValue(kind)

RECURSIVE RenderLoop(_, _, _, _, _, _)
\* lines 345-358: the fields in template order; a shown field's value is
\* written to form_data at once, so that later fields of the same run see it
RenderLoop(tp, i, fd, w, old_w, ev) ==
    IF i > Len(tp.keys) THEN [form_data |-> fd, w_input |-> w]
    ELSE LET field_name == Strip(tp.keys[i])
             field_info == tp.val[tp.keys[i]]
             kind == WidgetKind(field_info.type)
             v == WidgetValue(kind, field_name, old_w, ev)
         IN  IF should_show_field(field_name, field_info, fd)
             THEN RenderLoop(tp, i + 1, [fd EXCEPT ![field_name] = v],
                             (field_name :> [kind |-> kind, value |-> v]) @@ w,
                             old_w, ev)
             ELSE RenderLoop(tp, i + 1, fd, w, old_w, ev)

RenderStage(S, ev) ==
    LET r == RenderLoop(TemplatePlaceholders(S), 1, S.form_data, <<>>, S.w_input, ev)
    IN  [S EXCEPT !.form_data = r.form_data, !.w_input = r.w_input]

\* lines 370-373: the names whose value is empty
EmptyFields(fd) ==
    {k \in DOMAIN fd : ~PyBool(fd[k]) \/ PyIn(fd[k], <<EmptyStr, PyNone>>)}

\* what stands for the text the cleanup model returns
LlmText == <<"l", "l", "m">>

\* what stands for an exception leaving a call
LlmRaised == <<"raised">>

RECURSIVE SplitLines(_)
\* cleaned_text.split("\n")
SplitLines(text) ==
    LET breaks == {i \in DOMAIN text : text[i] = Newline} IN
    IF breaks = {} THEN <<text>>
    ELSE LET i == CHOOSE k \in breaks : \A m \in breaks : k <= m
         IN  <<SubSeq(text, 1, i - 1)>> \o SplitLines(SubSeq(text, i + 1, Len(text)))

\* the call of the model without the try / except around it
clean_up_document_with_llm_unguarded(original_text, ok) ==
    IF ok THEN LlmText ELSE LlmRaised

\* clean_up_document_with_llm: the answer of the model, or (lines 247-249, any
\* exception of the call) the original text
clean_up_document_with_llm(original_text, ok) ==
    IF ok THEN LlmText ELSE original_text

\* the button whose click started the run (st.button reads True for it alone)
ButtonClicked(ev) == IF ev.kind \in {"download", "confirm"} THEN ev.kind ELSE "none"

\* what a run shows before its download handler has done anything
RunOutcome(ev) == [NoOutcome EXCEPT !.clicked = ButtonClicked(ev)]

\* lines 368-409: the Download Final Document button.  "Confirm and Download"
\* is created inside this branch, so in this run it reads False.  An exception
\* in the generation block ends in the st.error of lines 406-409.
DownloadStage(S, ev, cleanup_ok) ==
    IF ev.kind # "download" THEN [S EXCEPT !.outcome = RunOutcome(ev)]
    ELSE LET tp == TemplatePlaceholders(S)
             missing == MissingFields(S.form_data, tp)
             empty_fields == EmptyFields(S.form_data)
             proceed == empty_fields = {}
             original_text == Join(S.docx_file.paragraphs)
             cleaned_text == clean_up_document_with_llm(original_text, cleanup_ok)
         IN  IF ~validate_form(S.form_data, tp)
             THEN [S EXCEPT !.outcome =
                     [RunOutcome(ev) EXCEPT !.validation = "failed", !.missing = missing]]
             ELSE IF ~proceed
             THEN [S EXCEPT !.outcome =
                     [RunOutcome(ev) EXCEPT !.validation = "passed", !.confirm = TRUE]]
             ELSE IF ~S.docx_file.present
             THEN [S EXCEPT !.outcome =
                     [RunOutcome(ev) EXCEPT !.validation = "passed",
                                       !.generation = "template_missing"]]
             ELSE IF cleaned_text = LlmRaised
             THEN [S EXCEPT !.outcome =
                     [RunOutcome(ev) EXCEPT !.validation = "passed",
                                       !.generation = "error",
                                       !.llm_failed = ~cleanup_ok]]
             ELSE [S EXCEPT !.outcome =
                     [RunOutcome(ev) EXCEPT
                        !.validation = "passed",
                        !.generation = "generated",
                        !.llm_failed = ~cleanup_ok,
                        !.cleaned_by = IF cleanup_ok THEN "llm" ELSE "original",
                        !.final = SelectSeq(SplitLines(cleaned_text), NonBlank)]]

\* lines 328-409: the user tab; st.stop() ends the run when no template is saved
UserStage(S, ev, cleanup_ok) ==
    IF ~S.template_json.saved
    THEN [S EXCEPT !.w_input = <<>>, !.outcome = NoOutcome]
    ELSE CHOOSE T \in {DownloadStage(s2, ev, cleanup_ok) :
                          s2 \in {RenderStage(s1, ev) : s1 \in {FormInitStage(S)}}} : TRUE

\* one run of the script, top to bottom: the set holding the session it leaves
ScriptRun(S, ev, ph, sugg, insert_ok, cleanup_ok) ==
    {UserStage(s4, ev, cleanup_ok) :
        s4 \in {SaveStage(s3, ev, insert_ok) :
            s3 \in {SuggestionStage(s2, ev) :
                s2 \in {ConfigStage(s1, ev) :
                    s1 \in {UploadStage(S, ph, sugg)}}}}}

(***************************************************************************)
(* The Streamlit script dynamic-form-generation.py: the form alone.  It    *)
(* reads template.json from disk in every run; the file holds the names in *)
(* either surface form ("a", "${a}") and one dependency name as a string.  *)
(***************************************************************************)
StrOpt1 == "'Option 1'"
StrOpt2 == "'Option 2'"

NoTemplateFile == [present |-> FALSE, keys |-> <<>>, val |-> <<>>]

NoSession == [has |-> FALSE, form_data |-> <<>>]

NoFormOutcome ==
    [validation |-> "none", missing |-> <<>>, generation |-> "none",
     filled_data |-> <<>>, cleaned_by |-> "none"]

should_show_field_form(field_name, field_info, fd) ==
    LET dependent_on == field_info.dependent_on IN
    IF ~field_info.is_conditional \/ DepEmpty(dependent_on)
    THEN TRUE
    ELSE LET parent_field == Strip(dependent_on.v)
             parent_value == DictGet(fd, parent_field)
         IN  ~PyIn(parent_value, NotFilledList)

is_field_required_form(field_name, field_info, fd) ==
    IF field_info.required
    THEN IF field_info.is_conditional /\ ~DepEmpty(field_info.dependent_on)
         THEN LET parent_value == DictGet(fd, Strip(field_info.dependent_on.v))
              IN  ~PyIn(parent_value, NotFilledList)
         ELSE TRUE
    ELSE FALSE

MissingFieldsForm(fd, tp) ==
    LET Test(name) ==
            /\ is_field_required_form(name, tp.val[name], fd)
            /\ ~PyBool(DictGet(fd, Strip(name)))
        sel == SelectSeq(tp.keys, Test)
    IN  [i \in DOMAIN sel |-> Strip(sel[i])]

validate_form_form(fd, tp) == MissingFieldsForm(fd, tp) = <<>>

FormWidgetKind(type) ==
    IF type \in {"Number", "Date", "Dropdown", "Checkbox"} THEN type ELSE "Text"

FormDefaultValue(kind) ==
    CASE kind = "Number" -> Float0
      [] kind = "Date" -> DateStr
      [] kind = "Dropdown" -> StrOpt1
      [] kind = "Checkbox" -> PyFalse
      [] OTHER -> EmptyStr

FormInputValues(kind) ==
    CASE kind = "Number" -> {Float0, Float1}
      [] kind = "Date" -> {DateStr}
      [] kind = "Dropdown" -> {StrOpt1, StrOpt2}
      [] kind = "Checkbox" -> {PyFalse, PyTrue}
      [] OTHER -> {EmptyStr, StrX, Str0}

FormWidgetValue(kind, field_name, old_w, ev) ==
    IF ev.kind = "input" /\ ev.target = field_name /\ ev.value \in FormInputValues(kind)
    THEN ev.value
    ELSE IF field_name \in DOMAIN old_w /\ old_w[field_name].kind = kind
         THEN old_w[field_name].value
         ELSE FormDefaultValue(kind)

\* lines 25-26: form_data is initialised only when the session has none
FormSessionInit(sess, tp) ==
    IF ~sess.has
    THEN [has |-> TRUE, form_data |-> [k \in StrippedKeys(tp) |-> PyNone]]
    ELSE sess

RECURSIVE FormRenderLoop(_, _, _, _, _, _, _)
\* lines 68-91: local holds the fields of this run, fd is session_state.form_data
FormRenderLoop(tp, i, fd, local, w, old_w, ev) ==
    IF i > Len(tp.keys) THEN [form_data |-> fd, local |-> local, w_input |-> w]
    ELSE LET field_name == Strip(tp.keys[i])
             field_info == tp.val[tp.keys[i]]
             kind == FormWidgetKind(field_info.type)
             v == FormWidgetValue(kind, field_name, old_w, ev)
         IN  IF should_show_field_form(field_name, field_info, fd)
             THEN FormRenderLoop(tp, i + 1, (field_name :> v) @@ fd,
                                 (field_name :> v) @@ local,
                                 (field_name :> [kind |-> kind, value |-> v]) @@ w,
                                 old_w, ev)
             ELSE FormRenderLoop(tp, i + 1, fd, local, w, old_w, ev)

\* lines 149-183: the Download Final Document button
FormDownload(tp, local, docx, ev, cleanup_ok) ==
    IF ev.kind # "download" THEN NoFormOutcome
    ELSE IF ~validate_form_form(local, tp)
    THEN [NoFormOutcome EXCEPT !.validation = "failed",
                               !.missing = MissingFieldsForm(local, tp)]
    ELSE IF ~docx
    THEN [NoFormOutcome EXCEPT !.validation = "passed", !.filled_data = local,
                               !.generation = "error"]
    ELSE [NoFormOutcome EXCEPT !.validation = "passed", !.filled_data = local,
                               !.generation = "generated",
                               !.cleaned_by = IF cleanup_ok THEN "llm" ELSE "original"]

\* one run of the script: what it leaves in the session and shows
FormScriptRun(tp, docx, sess, old_w, ev, cleanup_ok) ==
    IF ~tp.present
    THEN {[session |-> sess, placeholders |-> tp, init |-> sess.form_data,
           local |-> <<>>, w_input |-> <<>>, outcome |-> NoFormOutcome]}
    ELSE {[session |-> [has |-> TRUE, form_data |-> r.form_data], placeholders |-> tp,
           init |-> s1.form_data, local |-> r.local, w_input |-> r.w_input,
           outcome |-> FormDownload(tp, r.local, docx, ev, cleanup_ok)] :
             <<s1, r>> \in {<<s0, FormRenderLoop(tp, 1, s0.form_data, <<>>, <<>>, old_w, ev)>> :
                               s0 \in {FormSessionInit(sess, tp)}}}

FmIdle ==
    /\ fm_template = NoTemplateFile
    /\ fm_docx = FALSE
    /\ fm_session = NoSession
    /\ fm_placeholders = NoTemplateFile
    /\ fm_init = <<>>
    /\ fm_local = <<>>
    /\ fm_w_input = <<>>
    /\ fm_outcome = NoFormOutcome
    /\ fm_ops = 0

(***************************************************************************)
(* Spec: the interactions of the operator and of the user with the script  *)
(***************************************************************************)
\* the documents that can be uploaded: two placeholders, or no text at all
Docs == {<<pA \o <<" ">> \o pB>>, <<<<" ">>>>}

\* the answers of suggest_placeholders_with_ai: none (also on any error), a
\* new name, or the name of an extracted placeholder
SuggestionAnswers == {<<>>, <<nC>>, <<nA>>}

FieldTypes == {"Text", "Date", "Number"}

\* the number of interactions explored
MaxOps == 6

AppInit ==
    /\ uploaded_file = NoFile
    /\ processed_paragraphs = <<>>
    /\ placeholders = EmptyDict
    /\ ai_suggestions = <<>>
    /\ accepted_ai_suggestions = EmptyDict
    /\ template_json = NoTemplate
    /\ form_data = <<>>
    /\ w_accept = {}
    /\ w_input = <<>>
    /\ docx_file = [present |-> FALSE, paragraphs |-> <<>>]
    /\ outcome = NoOutcome
    /\ n_ops = 0

SuggestChoices(S) ==
    IF S.uploaded_file.present /\ S.processed_paragraphs = <<>> /\ S.ai_suggestions = <<>>
    THEN SuggestionAnswers ELSE {<<>>}

InsertChoices(S, ev) ==
    IF ev.kind = "save" /\ S.accepted_ai_suggestions.keys # <<>> THEN BOOLEAN ELSE {TRUE}

CleanupChoices(ev) == IF ev.kind = "download" THEN BOOLEAN ELSE {TRUE}

\* the session after one interaction ev and the run it starts
Rerun(S, ev) ==
    \E ph \in ExtractChoices(S), sugg \in SuggestChoices(S),
       insert_ok \in InsertChoices(S, ev), cleanup_ok \in CleanupChoices(ev) :
        \E T \in ScriptRun(S, ev, ph, sugg, insert_ok, cleanup_ok) :
        /\ uploaded_file' = T.uploaded_file
        /\ processed_paragraphs' = T.processed_paragraphs
        /\ placeholders' = T.placeholders
        /\ ai_suggestions' = T.ai_suggestions
        /\ accepted_ai_suggestions' = T.accepted_ai_suggestions
        /\ template_json' = T.template_json
        /\ form_data' = T.form_data
        /\ w_accept' = T.w_accept
        /\ w_input' = T.w_input
        /\ docx_file' = T.docx_file
        /\ outcome' = T.outcome

Interact(S, ev) ==
    /\ n_ops < MaxOps
    /\ Rerun(S, ev)
    /\ n_ops' = n_ops + 1
    /\ UNCHANGED <<evVars, exVars, fmVars>>

PartnerOp(ev) == Interact(Session, ev)

UserOp(ev) == Interact(Session, ev)

DependencyOptionsWithSelf(ph) ==
    Range(placeholders.keys) \cup Range(accepted_ai_suggestions.keys)

\* the names offered by a "Depends on:" multiselect of ph (lines 283-284)
DependencyOptions(ph) ==
    (Range(placeholders.keys) \cup Range(accepted_ai_suggestions.keys)) \ {ph}

Without(seq, x) == SelectSeq(seq, LAMBDA y : y # x)

\* line 258: a file is put into the empty uploader (replacing the file changes
\* nothing once the paragraphs are extracted)
Upload ==
    \E doc \in Docs :
        /\ ~uploaded_file.present
        /\ Interact([Session EXCEPT !.uploaded_file = [present |-> TRUE, doc |-> doc]],
                    NoEvent)

\* line 279
SetType ==
    \E ph \in Range(placeholders.keys), t \in FieldTypes :
        /\ t # placeholders.val[ph].type
        /\ PartnerOp([kind |-> "type", target |-> ph, value |-> t])

\* line 280
ToggleRequired ==
    \E ph \in Range(placeholders.keys) :
        PartnerOp([kind |-> "required", target |-> ph, value |-> <<>>])

\* line 281
ToggleConditional ==
    \E ph \in Range(placeholders.keys) :
        PartnerOp([kind |-> "conditional", target |-> ph, value |-> <<>>])

\* line 285: one more name is selected, or a selected name is removed
SelectDependency ==
    \E ph \in Range(placeholders.keys) :
        /\ placeholders.val[ph].is_conditional
        /\ LET cur == placeholders.val[ph].dependent_on.v IN
           \/ \E n \in DependencyOptions(ph) \ Range(cur) :
                 PartnerOp([kind |-> "depends", target |-> ph, value |-> Append(cur, n)])
           \/ \E n \in Range(cur) :
                 PartnerOp([kind |-> "depends", target |-> ph, value |-> Without(cur, n)])

\* line 289
ToggleAccept ==
    \E s \in Range(ai_suggestions) :
        PartnerOp([kind |-> "accept", target |-> s, value |-> <<>>])

\* line 292
SetAiType ==
    \E s \in w_accept, t \in FieldTypes :
        /\ t # accepted_ai_suggestions.val[s].type
        /\ PartnerOp([kind |-> "ai_type", target |-> s, value |-> t])

\* line 293
ToggleAiRequired ==
    \E s \in w_accept :
        PartnerOp([kind |-> "ai_required", target |-> s, value |-> <<>>])

\* line 294
ToggleAiConditional ==
    \E s \in w_accept :
        PartnerOp([kind |-> "ai_conditional", target |-> s, value |-> <<>>])

\* line 300
SelectAiDependency ==
    \E s \in w_accept :
        /\ accepted_ai_suggestions.val[s].is_conditional
        /\ LET cur == accepted_ai_suggestions.val[s].dependent_on.v IN
           \/ \E n \in DependencyOptions(s) \ Range(cur) :
                 PartnerOp([kind |-> "ai_depends", target |-> s, value |-> Append(cur, n)])
           \/ \E n \in Range(cur) :
                 PartnerOp([kind |-> "ai_depends", target |-> s, value |-> Without(cur, n)])

\* line 305
ClickSave ==
    \E ev \in {[kind |-> "save", target |-> <<>>, value |-> <<>>]} : PartnerOp(ev)

\* lines 349-357: the user changes the value of a rendered input widget
TypeInput ==
    \E f \in DOMAIN w_input :
        \E v \in InputValues(w_input[f].kind) \ {w_input[f].value} :
            UserOp([kind |-> "input", target |-> f, value |-> v])

\* line 368: the button exists once the run gets past st.stop()
ClickDownload ==
    /\ template_json.saved
    /\ UserOp([kind |-> "download", target |-> <<>>, value |-> <<>>])

\* line 379: the button exists when the last run asked for the confirmation
ClickConfirm ==
    /\ outcome.confirm
    /\ UserOp([kind |-> "confirm", target |-> <<>>, value |-> <<>>])

(***************************************************************************)
(* SpecEval: the evaluator and the validator applied to registries and     *)
(* value maps reached by a bounded number of edits from the seeded state.  *)
(***************************************************************************)

EvNames == {nA, nB, nC}

EvValues == {PyNone, EmptyStr, EmptyList, PyFalse, PyTrue, Int0, Str0, StrX}

MaxEvalOps == 2

EvShown(ph, fd) == [n \in Range(ph.keys) |-> should_show_field(n, ph.val[n], fd)]

EvRequired(ph, fd) == [n \in Range(ph.keys) |-> is_field_required(n, ph.val[n], fd)]

EvIdle ==
    /\ ev_placeholders = [keys |-> <<>>, val |-> <<>>]
    /\ ev_form_data = <<>>
    /\ ev_ops = 0
    /\ ev_shown = <<>>
    /\ ev_required = <<>>
    /\ ev_missing = <<>>
    /\ ev_ok = TRUE

EvApply(ph, fd) ==
    /\ ev_placeholders' = ph
    /\ ev_form_data' = fd
    /\ ev_shown' = EvShown(ph, fd)
    /\ ev_required' = EvRequired(ph, fd)
    /\ ev_missing' = MissingFields(fd, ph)
    /\ ev_ok' = validate_form(fd, ph)
    /\ ev_ops' = ev_ops + 1
    /\ UNCHANGED <<appVars, exVars, fmVars>>

ExIdle ==
    /\ ex_paragraphs = <<>>
    /\ ex_placeholders = [keys |-> <<>>, val |-> <<>>]
    /\ ex_done = FALSE

InitEval ==
    /\ AppInit
    /\ FmIdle
    /\ ExIdle
    /\ \E order \in {s \in DistinctSeqs(EvNames) : Len(s) = Cardinality(EvNames)} :
          ev_placeholders = [keys |-> order, val |-> [n \in EvNames |-> DefaultSettings]]
    /\ ev_form_data = [n \in EvNames |-> PyNone]
    /\ ev_ops = 0
    /\ ev_shown = EvShown(ev_placeholders, ev_form_data)
    /\ ev_required = EvRequired(ev_placeholders, ev_form_data)
    /\ ev_missing = MissingFields(ev_form_data, ev_placeholders)
    /\ ev_ok = validate_form(ev_form_data, ev_placeholders)

\* the operator configures one field (required, conditional, dependencies)
EvSetConfig ==
    /\ ev_ops < MaxEvalOps
    /\ \E f \in EvNames, req \in BOOLEAN, cond \in BOOLEAN,
          deps \in DistinctSeqs(EvNames) :
          /\ f \notin Range(deps)
          /\ EvApply([ev_placeholders EXCEPT !.val[f] =
                         [type |-> "Text", required |-> req, is_conditional |-> cond,
                          dependent_on |-> [list |-> TRUE, v |-> deps]]],
                     ev_form_data)

\* the value map gets a value for one field
EvSetValue ==
    /\ ev_ops < MaxEvalOps
    /\ \E f \in EvNames, v \in EvValues :
          EvApply(ev_placeholders, [ev_form_data EXCEPT ![f] = v])

Next ==
    \/ Upload \/ SetType \/ ToggleRequired \/ ToggleConditional \/ SelectDependency
    \/ ToggleAccept \/ SetAiType \/ ToggleAiRequired \/ ToggleAiConditional
    \/ SelectAiDependency \/ ClickSave \/ TypeInput \/ ClickDownload \/ ClickConfirm

Init == AppInit /\ EvIdle /\ ExIdle /\ FmIdle

Spec == Init /\ [][Next]_vars

\* the user presses "Confirm and Download" when the form asks for it
SpecLive == Init /\ [][Next]_vars /\ WF_vars(ClickConfirm)

NextEval == EvSetConfig \/ EvSetValue

SpecEval == InitEval /\ [][NextEval]_vars


(***************************************************************************)
(* SpecExtract: extract_placeholders applied to bounded documents          *)
(***************************************************************************)
\* paragraph texts: well-formed, repeated, unbalanced and nested placeholders
ParagraphTexts ==
    {pA, pB, pA \o <<" ">> \o pB, pB \o pA \o pB, <<"$", "{", "a">>, <<"}">>,
     <<"$", "{">> \o pA, <<"a">>}

MaxParagraphs == 3

InitExtract ==
    /\ AppInit
    /\ FmIdle
    /\ EvIdle
    /\ \E n \in 0..MaxParagraphs : ex_paragraphs \in [1..n -> ParagraphTexts]
    /\ ex_placeholders = [keys |-> <<>>, val |-> <<>>]
    /\ ex_done = FALSE

Extract ==
    /\ ~ex_done
    /\ ex_placeholders' \in extract_placeholders(ex_paragraphs)
    /\ ex_done' = TRUE
    /\ UNCHANGED <<ex_paragraphs, appVars, evVars, fmVars>>

NextExtract == Extract

SpecExtract == InitExtract /\ [][NextExtract]_vars

RECURSIVE FirstSeen(_)
\* a list without its repetitions, every element at its first occurrence
FirstSeen(found) ==
    IF found = <<>> THEN <<>>
    ELSE LET init == FirstSeen(SubSeq(found, 1, Len(found) - 1))
             last == found[Len(found)]
         IN  IF last \in Range(init) THEN init ELSE Append(init, last)

\* C9: extract_placeholders yields every placeholder name exactly once, in
\* the order of first occurrence in the text.
C9_FirstOccurrenceOrder ==
    ex_done => ex_placeholders.keys = FirstSeen(FindAll(Join(ex_paragraphs)))

(***************************************************************************)
(* Claims about the evaluator and the validator (SpecEval)                 *)
(***************************************************************************)
\* the claims' notion of a filled value: anything but unset, the empty
\* string, the empty list and boolean false (numeric 0 and "0" are filled)
SpecFilled(v) == v \notin {PyNone, EmptyStr, EmptyList, PyFalse}

\* the code's own notion of a filled parent (line 179)
CodeFilled(v) == ~PyIn(v, NotFilledList)

EvInfo(n) == ev_placeholders.val[n]

EvDeps(n) == EvInfo(n).dependent_on.v

\* C1: a field conditional on one parent A is shown iff the value of A is
\* neither unset, nor "", nor [], nor False; numeric 0 and "0" count as filled.
C1_ShownIffParentFilled ==
    \A b \in EvNames :
        (EvInfo(b).is_conditional /\ Len(EvDeps(b)) = 1)
            => (ev_shown[b] <=> SpecFilled(ev_form_data[EvDeps(b)[1]]))

\* C2: is_field_required is true iff the required flag is set and
\* should_show_field is true for the same field and value map, and a required
\* field that is hidden is never listed as missing by validate_form.
C2_RequiredIffRequiredAndShown ==
    \A n \in EvNames :
        /\ ev_required[n] <=> (EvInfo(n).required /\ ev_shown[n])
        /\ (EvInfo(n).required /\ ~ev_shown[n]) => n \notin Range(ev_missing)

\* a required field with no value is hidden by its unfilled parent
C2_Witness ==
    \E n \in EvNames :
        /\ EvInfo(n).required /\ EvInfo(n).is_conditional /\ EvDeps(n) # <<>>
        /\ ~ev_shown[n]
        /\ ~PyBool(ev_form_data[n])
        /\ ev_ok

\* C3: validate_form lists, in registry order, exactly the effectively
\* required fields whose value is not filled in the sense of SpecFilled
\* (0 and "0" are filled), and passes iff the list is empty.
C3_MissingAsClaimed ==
    LET Unmet(n) == ev_required[n] /\ ~SpecFilled(ev_form_data[n])
    IN  /\ ev_missing = SelectSeq(ev_placeholders.keys, Unmet)
        /\ ev_ok <=> (ev_missing = <<>>)

\* C8: a conditional field with more than one dependency is shown (and, if
\* required, effectively required) iff ALL its dependencies are filled.
C8_AllDependenciesFilled ==
    \A n \in EvNames :
        (EvInfo(n).is_conditional /\ Len(EvDeps(n)) > 1)
            => LET all == \A i \in DOMAIN EvDeps(n) :
                              CodeFilled(ev_form_data[EvDeps(n)[i]])
               IN  /\ ev_shown[n] <=> all
                   /\ ev_required[n] <=> (EvInfo(n).required /\ all)

(***************************************************************************)
(* Claims about the script (Spec)                                          *)
(***************************************************************************)
\* the placeholders of the saved template, as a run reads them
TemplateView == TemplatePlaceholders(Session)

\* every stored configuration: the registry, the accepted suggestions and
\* the saved template
StoredSettings ==
    {<<n, placeholders.val[n]>> : n \in Range(placeholders.keys)}
        \cup {<<n, accepted_ai_suggestions.val[n]>> :
                 n \in Range(accepted_ai_suggestions.keys)}
        \cup {<<n, TemplateView.val[n]>> : n \in Range(TemplateView.keys)}

\* C4 (document-upload-parse.py): generation (the template load and the cleanup
\* call) is performed only when no effectively required field has an unfilled
\* value.
C4_GenerationOnlyWhenRequiredFilled ==
    outcome.generation # "none"
        => \A n \in Range(TemplateView.keys) :
              is_field_required(n, TemplateView.val[n], form_data)
                  => SpecFilled(DictGet(form_data, Strip(n)))

\* a document was generated from a template with a required, filled field
C4_Witness ==
    /\ outcome.generation = "generated"
    /\ \E n \in Range(TemplateView.keys) :
          /\ is_field_required(n, TemplateView.val[n], form_data)
          /\ form_data[Strip(n)] = StrX

RegistryView == TemplatePlaceholders([Session EXCEPT !.template_json = MergedPlaceholders(Session)])

\* n depends on d: n is conditional and lists d
DependsOn(reg, n, d) ==
    /\ n \in Range(reg.keys)
    /\ reg.val[n].is_conditional
    /\ d \in Range(reg.val[n].dependent_on.v)

\* d can be reached from n along at most k dependency edges (k >= 1)
RECURSIVE ReachesIn(_, _, _, _)
ReachesIn(reg, n, d, k) ==
    \/ DependsOn(reg, n, d)
    \/ /\ k > 1
       /\ \E m \in Range(reg.keys) : DependsOn(reg, n, m) /\ ReachesIn(reg, m, d, k - 1)

Acyclic(reg) == \A n \in Range(reg.keys) : ~ReachesIn(reg, n, n, Len(reg.keys))

\* C6: after any sequence of configuration edits and saves the dependency
\* graph over the conditional fields is acyclic.
C6_DependencyGraphAcyclic == Acyclic(RegistryView) /\ Acyclic(TemplateView)

\* C7: once a template is saved, its placeholder configurations do not
\* change until the template is saved again.
C7_SavedTemplateImmutable ==
    [][(template_json.saved /\ template_json' = template_json)
          => TemplateView' = TemplateView]_vars


(***************************************************************************)
(* SpecForm: a user session of dynamic-form-generation.py, with            *)
(* template.json written (and later replaced) by the configuration stage   *)
(***************************************************************************)
Field(type, required, is_conditional, dependent_on) ==
    [type |-> type, required |-> required, is_conditional |-> is_conditional,
     dependent_on |-> [list |-> FALSE, v |-> dependent_on]]

pC == <<"$", "{", "c", "}">>

\* the templates the configuration stage writes
FormTemplates ==
    {[present |-> TRUE, keys |-> <<pA, pB>>,
      val |-> (pA :> Field("Checkbox", FALSE, FALSE, <<>>)) @@
              (pB :> Field("Text", TRUE, TRUE, pA))],
     [present |-> TRUE, keys |-> <<pA, pC>>,
      val |-> (pA :> Field("Number", FALSE, FALSE, <<>>)) @@
              (pC :> Field("Text", TRUE, TRUE, pA))],
     [present |-> TRUE, keys |-> <<nA, nB, nC>>,
      val |-> (nA :> Field("Text", FALSE, FALSE, <<>>)) @@
              (nB :> Field("Text", FALSE, TRUE, nA)) @@
              (nC :> Field("Text", TRUE, TRUE, nB))],
     [present |-> TRUE, keys |-> <<nB, nA>>,
      val |-> (nB :> Field("Dropdown", TRUE, TRUE, nA)) @@
              (nA :> Field("Date", TRUE, FALSE, nB))]}

\* the number of runs and file changes explored
MaxFormOps == 6

InitForm ==
    /\ AppInit /\ EvIdle /\ ExIdle
    /\ fm_template = NoTemplateFile
    /\ fm_docx \in BOOLEAN
    /\ fm_session = NoSession
    /\ fm_placeholders = NoTemplateFile
    /\ fm_init = <<>>
    /\ fm_local = <<>>
    /\ fm_w_input = <<>>
    /\ fm_outcome = NoFormOutcome
    /\ fm_ops = 0

FormRerun(ev) ==
    /\ fm_ops < MaxFormOps
    /\ \E cleanup_ok \in CleanupChoices(ev) :
       \E T \in FormScriptRun(fm_template, fm_docx, fm_session, fm_w_input, ev, cleanup_ok) :
          /\ fm_session' = T.session
          /\ fm_placeholders' = T.placeholders
          /\ fm_init' = T.init
          /\ fm_local' = T.local
          /\ fm_w_input' = T.w_input
          /\ fm_outcome' = T.outcome
    /\ fm_ops' = fm_ops + 1
    /\ UNCHANGED <<fm_template, fm_docx, appVars, evVars, exVars>>

\* the configuration stage writes template.json (lines 14-20 read it per run)
WriteTemplateFile ==
    /\ fm_ops < MaxFormOps
    /\ \E t \in FormTemplates : t # fm_template /\ fm_template' = t
    /\ fm_ops' = fm_ops + 1
    /\ UNCHANGED <<fm_docx, fm_session, fm_placeholders, fm_init, fm_local,
                   fm_w_input, fm_outcome, appVars, evVars, exVars>>

\* the page is opened, or re-run without a change
OpenForm == \E ev \in {NoEvent} : FormRerun(ev)

FormInput ==
    \E f \in DOMAIN fm_w_input :
        \E v \in FormInputValues(fm_w_input[f].kind) \ {fm_w_input[f].value} :
            FormRerun([kind |-> "input", target |-> f, value |-> v])

\* line 149: the button exists once a run got past st.stop()
FormClickDownload ==
    /\ fm_session.has
    /\ FormRerun([kind |-> "download", target |-> <<>>, value |-> <<>>])

NextForm == WriteTemplateFile \/ OpenForm \/ FormInput \/ FormClickDownload

SpecForm == InitForm /\ [][NextForm]_vars

\* C10: in every run, when the names of the loaded template differ from the
\* keys of the form session, the session is re-initialised with every name
\* unset; when they are the same, the entered values are kept.
C10_ReinitWhenKeysChange ==
    [][(fm_session' # fm_session \/ fm_init' # fm_init \/ fm_outcome' # fm_outcome
          \/ fm_w_input' # fm_w_input) /\ fm_template.present
         => IF DOMAIN fm_session.form_data # StrippedKeys(fm_template)
            THEN fm_init' = [k \in StrippedKeys(fm_template) |-> PyNone]
            ELSE fm_init' = fm_session.form_data]_vars

\* C4 (dynamic-form-generation.py): a document is generated only when no field
\* that is on the form and required (as the form marks it, from the session's
\* values) holds an unfilled value.
C4_FormGenerationOnlyWhenRequiredFilled ==
    fm_outcome.generation = "generated"
        => \A k \in Range(fm_placeholders.keys) :
              (/\ Strip(k) \in DOMAIN fm_local
               /\ is_field_required_form(k, fm_placeholders.val[k], fm_session.form_data))
                  => SpecFilled(DictGet(fm_session.form_data, Strip(k)))

\* C11: when the cleanup call of a generation fails, the generation still
\* succeeds and the final document holds the non-blank lines of the original
\* text of the template document, unmodified.
C11_CleanupFailureKeepsOriginal ==
    outcome.llm_failed
        => /\ outcome.generation = "generated"
           /\ outcome.final = SelectSeq(SplitLines(Join(docx_file.paragraphs)), NonBlank)

\* a generation whose cleanup call failed, from a template document with text
C11_Witness ==
    /\ outcome.llm_failed
    /\ outcome.generation = "generated"
    /\ outcome.final # <<>>

\* C12: an accepted suggestion whose name is already in the registry never
\* replaces the existing entry: the merged registry (what Save Template saves)
\* holds, for every extracted name, the configuration of the extracted entry.
C12_ExistingEntryNotOverridden ==
    \A n \in Range(placeholders.keys) : RegistryView.val[n] = placeholders.val[n]

\* C13: a field whose is_conditional flag is false is shown whatever the value
\* map and its stored dependent_on are, and it is required iff its required
\* flag is set.
C13_NonConditionalIgnoresDependency ==
    \A n \in EvNames :
        ~EvInfo(n).is_conditional
            => /\ ev_shown[n]
               /\ ev_required[n] <=> EvInfo(n).required

\* a required, non-conditional field that stores a dependency on an unfilled field
C13_Witness ==
    \E n \in EvNames :
        /\ ~EvInfo(n).is_conditional /\ EvInfo(n).required
        /\ EvDeps(n) # <<>>
        /\ ~CodeFilled(ev_form_data[EvDeps(n)[1]])
        /\ ev_shown[n] /\ ev_required[n]

\* the fields the last run of the form rendered
FormShown == DOMAIN fm_local

\* C14: after every run of the form, a field C that is conditional on a hidden
\* conditional field B is hidden too and is not effectively required, whatever
\* was entered into B while it was visible.
C14_HidingPropagates ==
    \A b \in Range(fm_placeholders.keys), c \in Range(fm_placeholders.keys) :
        LET info_b == fm_placeholders.val[b]
            info_c == fm_placeholders.val[c]
        IN  (/\ info_b.is_conditional /\ ~DepEmpty(info_b.dependent_on)
             /\ info_c.is_conditional /\ Strip(info_c.dependent_on.v) = Strip(b)
             /\ Strip(b) \notin FormShown)
                => /\ Strip(c) \notin FormShown
                   /\ ~is_field_required_form(c, info_c, fm_session.form_data)

\* C15: once the user, asked to confirm the empty optional fields, has pressed
\* "Confirm and Download", the document is eventually generated.
C15_ConfirmLeadsToGeneration ==
    (outcome.clicked = "confirm") ~> (outcome.generation = "generated")

=============================================================================
